---- MODULE Spec2Model ----
(***************************************************************************)
(* A model of ksbuilder (src/ksbuilder.go): the pkcs12File aggregate with  *)
(* its methods addCertificate, addKey and writeFile, and the run of main   *)
(* (flag validation, directory walk, the loop over certfiles with its PEM  *)
(* block loop, certificate classification, and the final writeFile).       *)
(*                                                                         *)
(* Two specifications:                                                     *)
(*   Spec      a run of main from the state after flag.Parse;              *)
(*   SpecUnit  the three methods of pkcs12File applied to an arbitrary     *)
(*             aggregate value (the methods' contracts).                   *)
(***************************************************************************)
EXTENDS Integers, Sequences, FiniteSets, TLC

VARIABLES
    outfile,      \* main: outfile (flag --out / KSBUILDER_OUT)
    storepass,    \* main: storepass (flag --password / KSBUILDER_PASSWORD)
    recurse,      \* main: recurse (flag --recursive)
    certdirs,     \* main: certdirs (flag --dir), appended to by the walk callback
    certfiles,    \* main: certfiles (flag --file), appended to by the walk callback
    tree,         \* the directory tree on disk that filepath.Walk sees
    dirRange,     \* the slice value the `range certdirs` loop iterates (fixed at loop entry)
    diri,         \* index of the `range certdirs` loop
    filei,        \* index of the `range certfiles` loop
    decoded,      \* types of the PEM blocks pem.Decode has returned from the current file, in order
    certsBytes,   \* main: certsBytes, DER of the CERTIFICATE blocks of the current file
    certs,        \* main: certs still to be passed to addCertificate for the current file
    p12,          \* the pkcs12File aggregate
    pc,           \* position of main ("unit" under SpecUnit)
    err,          \* the message main panicked with, or the error of the last method call
    call,         \* the last pkcs12File method call: [fn, arg]
    ncalls,       \* number of pkcs12File method calls made
    encoded,      \* arguments handed to the pkcs12 encode primitive (NoEncode if none)
    output,       \* what os.WriteFile left at path outfile (NoFile if never opened)
    trace,        \* history: objects accepted by addCertificate / addKey, in call order
    opened,       \* history: paths handed to os.ReadFile, in order
    nblocks       \* history: number of PEM blocks read from the input so far

vars == <<outfile, storepass, recurse, certdirs, certfiles, tree, dirRange, diri,
          filei, decoded, certsBytes, certs, p12, pc, err, call, ncalls, encoded,
          output, trace, opened, nblocks>>

(***************************************************************************)
(* Bounds of the model.                                                    *)
(***************************************************************************)
\* total number of PEM blocks in all the input files of one run
MaxObjects == 4
\* number of PEM blocks in one input file
MaxBlocksPerFile == 2
\* number of method calls in one behaviour of SpecUnit
MaxUnitCalls == 3
\* length of the root and intermediate sequences of the initial aggregate of SpecUnit
MaxUnitLen == 1

\* a nil pointer (certificate or key)
Nil == [nil |-> TRUE]
\* a nil error
NoErr == "nil"

(***************************************************************************)
(* Certificates and keys.                                                  *)
(***************************************************************************)
\* x509.ParseCertificate on one DER value: the fields of x509.Certificate that
\* the program reads (Raw stands for the rest of the certificate).
CertTable ==
    [rootA |-> [Raw |-> "rootA", Subject |-> "CN=A", Issuer |-> "CN=A", IsCA |-> TRUE],
     rootC |-> [Raw |-> "rootC", Subject |-> "CN=C", Issuer |-> "CN=C", IsCA |-> TRUE],
     intB  |-> [Raw |-> "intB",  Subject |-> "CN=B", Issuer |-> "CN=A", IsCA |-> TRUE],
     leafD |-> [Raw |-> "leafD", Subject |-> "CN=D", Issuer |-> "CN=B", IsCA |-> FALSE],
     leafE |-> [Raw |-> "leafE", Subject |-> "CN=E", Issuer |-> "CN=E", IsCA |-> FALSE]]

CertDER == DOMAIN CertTable
Certs == {CertTable[d] : d \in CertDER}
Garbage == "garbage"

\* DER private keys: encoding (PKCS#8 or PKCS#1), algorithm and the key encoded.
\* k8 and k1 are the two encodings of one RSA key.
KeyTable ==
    [k8  |-> [Format |-> "PKCS8", Alg |-> "rsa",   Id |-> "K"],
     ec8 |-> [Format |-> "PKCS8", Alg |-> "ecdsa", Id |-> "E"],
     k1  |-> [Format |-> "PKCS1", Alg |-> "rsa",   Id |-> "K"]]

KeyDER == DOMAIN KeyTable
\* *rsa.PrivateKey values
RsaKeys == {[Alg |-> "rsa", Id |-> KeyTable[d].Id] : d \in {k \in KeyDER : KeyTable[k].Alg = "rsa"}}

\* x509.ParsePKCS8PrivateKey: the key (of any algorithm), or Nil on error
ParsePKCS8PrivateKey(der) ==
    IF der \in KeyDER /\ KeyTable[der].Format = "PKCS8"
    THEN [Alg |-> KeyTable[der].Alg, Id |-> KeyTable[der].Id]
    ELSE Nil

\* x509.ParsePKCS1PrivateKey: an RSA key, or Nil on error
ParsePKCS1PrivateKey(der) ==
    IF der \in KeyDER /\ KeyTable[der].Format = "PKCS1"
    THEN [Alg |-> KeyTable[der].Alg, Id |-> KeyTable[der].Id]
    ELSE Nil

\* parseResult.(*rsa.PrivateKey)
IsRsaKey(k) == k # Nil /\ k.Alg = "rsa"

\* x509.ParseCertificates returning the certificates in reverse order
RECURSIVE ParseCertificatesReversed(_)
ParseCertificatesReversed(ders) ==
    IF ders = <<>> THEN [err |-> NoErr, certs |-> <<>>]
    ELSE IF Head(ders) \notin CertDER THEN [err |-> "ParseError", certs |-> <<>>]
    ELSE LET rest == ParseCertificatesReversed(Tail(ders))
         IN  IF rest.err # NoErr THEN rest
             ELSE [err |-> NoErr, certs |-> rest.certs \o <<CertTable[Head(ders)]>>]

\* x509.ParseCertificates on the concatenated DER of a file: all of them or an error
RECURSIVE ParseCertificates(_)
ParseCertificates(ders) ==
    IF ders = <<>> THEN [err |-> NoErr, certs |-> <<>>]
    ELSE IF Head(ders) \notin CertDER THEN [err |-> "ParseError", certs |-> <<>>]
    ELSE LET rest == ParseCertificates(Tail(ders))
         IN  IF rest.err # NoErr THEN rest
             ELSE [err |-> NoErr, certs |-> <<CertTable[Head(ders)]>> \o rest.certs]

(***************************************************************************)
(* The aggregate and its methods.                                          *)
(***************************************************************************)
EmptyP12 == [cacerts |-> <<>>, intermediatecerts |-> <<>>, privkey |-> Nil, entitycert |-> Nil]

\* addCertificate with the self-signed test made before the IsCA test
addCertificateSelfSignedFirst(p, cert) ==
    IF cert = Nil THEN [p12 |-> p, err |-> NoErr]
    ELSE IF cert.Issuer = cert.Subject
         THEN [p12 |-> [p EXCEPT !.cacerts = Append(@, cert)], err |-> NoErr]
    ELSE IF cert.IsCA
         THEN [p12 |-> [p EXCEPT !.intermediatecerts = Append(@, cert)], err |-> NoErr]
    ELSE IF p.entitycert # Nil
         THEN [p12 |-> p, err |-> "DuplicateEndEntity"]
    ELSE [p12 |-> [p EXCEPT !.entitycert = cert], err |-> NoErr]

\* addCertificate that overwrites the end-entity slot before reporting the duplicate
addCertificateOverwrite(p, cert) ==
    IF cert = Nil THEN [p12 |-> p, err |-> NoErr]
    ELSE IF cert.IsCA
         THEN IF cert.Issuer = cert.Subject
              THEN [p12 |-> [p EXCEPT !.cacerts = Append(@, cert)], err |-> NoErr]
              ELSE [p12 |-> [p EXCEPT !.intermediatecerts = Append(@, cert)], err |-> NoErr]
    ELSE IF p.entitycert # Nil
         THEN [p12 |-> [p EXCEPT !.entitycert = cert], err |-> "DuplicateEndEntity"]
    ELSE [p12 |-> [p EXCEPT !.entitycert = cert], err |-> NoErr]

\* addCertificate that puts a CA certificate at the front of its sequence
addCertificatePrepend(p, cert) ==
    IF cert = Nil THEN [p12 |-> p, err |-> NoErr]
    ELSE IF cert.IsCA
         THEN IF cert.Issuer = cert.Subject
              THEN [p12 |-> [p EXCEPT !.cacerts = <<cert>> \o @], err |-> NoErr]
              ELSE [p12 |-> [p EXCEPT !.intermediatecerts = <<cert>> \o @], err |-> NoErr]
    ELSE IF p.entitycert # Nil
         THEN [p12 |-> p, err |-> "DuplicateEndEntity"]
    ELSE [p12 |-> [p EXCEPT !.entitycert = cert], err |-> NoErr]

\* addCertificate that empties the end-entity slot when it records a root
addCertificateRootClearsEntity(p, cert) ==
    IF cert = Nil THEN [p12 |-> p, err |-> NoErr]
    ELSE IF cert.IsCA
         THEN IF cert.Issuer = cert.Subject
              THEN [p12 |-> [p EXCEPT !.cacerts = Append(@, cert), !.entitycert = Nil],
                    err |-> NoErr]
              ELSE [p12 |-> [p EXCEPT !.intermediatecerts = Append(@, cert)], err |-> NoErr]
    ELSE IF p.entitycert # Nil
         THEN [p12 |-> p, err |-> "DuplicateEndEntity"]
    ELSE [p12 |-> [p EXCEPT !.entitycert = cert], err |-> NoErr]

\* (p12 *pkcs12File) addCertificate(cert): the aggregate after the call and the error
addCertificate(p, cert) ==
    IF cert = Nil THEN [p12 |-> p, err |-> NoErr]
    ELSE IF cert.IsCA
         THEN IF cert.Issuer = cert.Subject
              THEN [p12 |-> [p EXCEPT !.cacerts = Append(@, cert)], err |-> NoErr]
              ELSE [p12 |-> [p EXCEPT !.intermediatecerts = Append(@, cert)], err |-> NoErr]
    ELSE IF p.entitycert # Nil
         THEN [p12 |-> p, err |-> "DuplicateEndEntity"]
    ELSE [p12 |-> [p EXCEPT !.entitycert = cert], err |-> NoErr]

\* (p12 *pkcs12File) addKey(key): the method never assigns p12.privkey
addKey(p, key) ==
    IF key # Nil /\ p.privkey # Nil
    THEN [p12 |-> p, err |-> "DuplicateKey"]
    ELSE [p12 |-> p, err |-> NoErr]

NoEncode == [mode |-> "none"]
NoFile == [file |-> "none"]
Partial == [file |-> "partial"]

\* pkcs12.Encode / pkcs12.EncodeTrustStore: the payload is determined by the arguments
Encode(privkey, entitycert, allcerts, password) ==
    [mode |-> "keystore", key |-> privkey, cert |-> entitycert, chain |-> allcerts,
     password |-> password]

EncodeTrustStore(allcerts, password) ==
    [mode |-> "truststore", chain |-> allcerts, password |-> password]

\* writeFile without the end-entity requirement of keystore mode
writeFileNoEntityCheck(p, storepw, encodeOk, writeOk, partial) ==
    LET allcerts == p.cacerts \o p.intermediatecerts
        payload == IF p.privkey # Nil
                   THEN Encode(p.privkey, p.entitycert, allcerts, storepw)
                   ELSE EncodeTrustStore(allcerts, storepw)
    IN  IF ~encodeOk
        THEN [err |-> "EncodeError", encoded |-> payload, output |-> NoFile]
        ELSE IF ~writeOk
        THEN [err |-> "WriteError", encoded |-> payload,
              output |-> IF partial THEN Partial ELSE NoFile]
        ELSE [err |-> NoErr, encoded |-> payload, output |-> [file |-> "written", payload |-> payload]]

\* writeFile that builds the chain as intermediates followed by roots
writeFileIntermediatesFirst(p, storepw, encodeOk, writeOk, partial) ==
    LET allcerts == p.intermediatecerts \o p.cacerts
        payload == IF p.privkey # Nil
                   THEN Encode(p.privkey, p.entitycert, allcerts, storepw)
                   ELSE EncodeTrustStore(allcerts, storepw)
    IN  IF p.privkey # Nil /\ p.entitycert = Nil
        THEN [err |-> "MissingEndEntityCert", encoded |-> NoEncode, output |-> NoFile]
        ELSE IF ~encodeOk
        THEN [err |-> "EncodeError", encoded |-> payload, output |-> NoFile]
        ELSE IF ~writeOk
        THEN [err |-> "WriteError", encoded |-> payload,
              output |-> IF partial THEN Partial ELSE NoFile]
        ELSE [err |-> NoErr, encoded |-> payload, output |-> [file |-> "written", payload |-> payload]]

\* writeFile that writes the output file although the encode primitive failed
writeFileIgnoreEncodeError(p, storepw, encodeOk, writeOk, partial) ==
    LET allcerts == p.cacerts \o p.intermediatecerts
        payload == IF p.privkey # Nil
                   THEN Encode(p.privkey, p.entitycert, allcerts, storepw)
                   ELSE EncodeTrustStore(allcerts, storepw)
    IN  IF p.privkey # Nil /\ p.entitycert = Nil
        THEN [err |-> "MissingEndEntityCert", encoded |-> NoEncode, output |-> NoFile]
        ELSE IF ~writeOk
        THEN [err |-> "WriteError", encoded |-> payload,
              output |-> IF partial THEN Partial ELSE NoFile]
        ELSE [err |-> IF encodeOk THEN NoErr ELSE "EncodeError", encoded |-> payload,
              output |-> [file |-> "written", payload |-> payload]]

\* writeFile that puts a recorded end-entity certificate into the trust store
writeFileEntityInTrustStore(p, storepw, encodeOk, writeOk, partial) ==
    LET allcerts == p.cacerts \o p.intermediatecerts
        payload == IF p.privkey # Nil
                   THEN Encode(p.privkey, p.entitycert, allcerts, storepw)
                   ELSE IF p.entitycert # Nil
                   THEN EncodeTrustStore(Append(allcerts, p.entitycert), storepw)
                   ELSE EncodeTrustStore(allcerts, storepw)
    IN  IF p.privkey # Nil /\ p.entitycert = Nil
        THEN [err |-> "MissingEndEntityCert", encoded |-> NoEncode, output |-> NoFile]
        ELSE IF ~encodeOk
        THEN [err |-> "EncodeError", encoded |-> payload, output |-> NoFile]
        ELSE IF ~writeOk
        THEN [err |-> "WriteError", encoded |-> payload,
              output |-> IF partial THEN Partial ELSE NoFile]
        ELSE [err |-> NoErr, encoded |-> payload, output |-> [file |-> "written", payload |-> payload]]

\* (p12 *pkcs12File) writeFile(path, storepass, perm). encodeOk: the encode primitive
\* succeeds; writeOk: os.WriteFile succeeds; partial: a failed os.WriteFile had
\* already created or truncated the file.
writeFile(p, storepw, encodeOk, writeOk, partial) ==
    LET allcerts == p.cacerts \o p.intermediatecerts
        payload == IF p.privkey # Nil
                   THEN Encode(p.privkey, p.entitycert, allcerts, storepw)
                   ELSE EncodeTrustStore(allcerts, storepw)
    IN  IF p.privkey # Nil /\ p.entitycert = Nil
        THEN [err |-> "MissingEndEntityCert", encoded |-> NoEncode, output |-> NoFile]
        ELSE IF ~encodeOk
        THEN [err |-> "EncodeError", encoded |-> payload, output |-> NoFile]
        ELSE IF ~writeOk
        THEN [err |-> "WriteError", encoded |-> payload,
              output |-> IF partial THEN Partial ELSE NoFile]
        ELSE [err |-> NoErr, encoded |-> payload, output |-> [file |-> "written", payload |-> payload]]

(***************************************************************************)
(* Paths (sequences of characters) and the directory tree.                 *)
(***************************************************************************)
Sep == "/"
\* the working directory of the process
Cwd == <<"/", "w">>

\* filepath.Abs: an absolute path is kept, a relative one is joined to the working directory
Abs(p) ==
    IF p = <<>> THEN Cwd
    ELSE IF p[1] = Sep THEN p
    ELSE Cwd \o <<Sep>> \o p

\* filepath.Join(dir, name) as filepath.Walk builds the paths it visits
Join(dir, name) == dir \o <<Sep>> \o name

\* filepath.Ext: the suffix from the last dot of the last path element, or empty
RECURSIVE ExtFrom(_, _)
ExtFrom(path, i) ==
    IF i < 1 THEN <<>>
    ELSE IF path[i] = Sep THEN <<>>
    ELSE IF path[i] = "." THEN SubSeq(path, i, Len(path))
    ELSE ExtFrom(path, i - 1)

Ext(path) == ExtFrom(path, Len(path))

ExtCrt == <<".", "c", "r", "t">>
ExtKey == <<".", "k", "e", "y">>
ExtPem == <<".", "p", "e", "m">>

\* the extension test of the walk callback
AllowedExtension(path) ==
    LET extension == Ext(path)
    IN  ~(extension # ExtCrt /\ extension # ExtKey /\ extension # ExtPem)

File(name) == [name |-> name, isDir |-> FALSE]
Dir(name) == [name |-> name, isDir |-> TRUE]

NameA == <<"a", ".", "c", "r", "t">>
NameB == <<"b", ".", "p", "e", "m">>
NameC == <<"c", ".", "k", "e", "y">>
NameD == <<"d", ".", "c", "r", "t">>
NameN == <<"n", ".", "t", "x", "t">>
NameX == <<"x", ".", "t", "x", "t">>
NameDirD == <<"d">>
NameDirS == <<"s">>
NameDirQ == <<"q">>

PathD == Join(Cwd, NameDirD)
PathS == Join(PathD, NameDirS)

\* Directory trees under the working directory: each directory's entries in
\* lexical order, the order in which filepath.Walk visits them.
TreeFlat ==
    (Cwd :> <<Dir(NameDirD)>>) @@
    (PathD :> <<File(NameA), File(NameB), File(NameC), File(NameD), File(NameN)>>)

TreeMixed ==
    (Cwd :> <<Dir(NameDirD)>>) @@
    (PathD :> <<File(NameA), File(NameN), Dir(NameDirS)>>) @@
    (PathS :> <<File(NameC)>>)

\* a directory with a single candidate file
TreeSingle ==
    (Cwd :> <<Dir(NameDirD)>>) @@
    (PathD :> <<File(NameA)>>)

\* the four candidate files of TreeFlat one directory level deeper
TreeDeep ==
    (Cwd :> <<Dir(NameDirD)>>) @@
    (PathD :> <<Dir(NameDirS)>>) @@
    (PathS :> <<File(NameA), File(NameB), File(NameC), File(NameD)>>)

\* filepath.Walk(root, fn) with fn returning nil: the visits in order, the root
\* first, every directory before its entries, sub-directories always entered.
RECURSIVE WalkVisits(_, _), WalkEntries(_, _, _)
WalkVisits(t, path) ==
    <<[path |-> path, isDir |-> TRUE]>> \o WalkEntries(t, path, t[path])

WalkEntries(t, path, es) ==
    IF es = <<>> THEN <<>>
    ELSE LET e == Head(es)
             p == Join(path, e.name)
         IN  (IF e.isDir THEN WalkVisits(t, p) ELSE <<[path |-> p, isDir |-> FALSE]>>)
             \o WalkEntries(t, path, Tail(es))

\* The callback given to filepath.Walk, applied to the visits in order:
\* the values of certdirs and certfiles after the walk of dir.
RECURSIVE WalkFn(_, _, _, _, _)
WalkFn(visits, dir, rec, cd, cf) ==
    IF visits = <<>> THEN [certdirs |-> cd, certfiles |-> cf]
    ELSE LET v == Head(visits)
         IN  IF v.isDir
             THEN IF v.path # dir /\ rec
                  THEN WalkFn(Tail(visits), dir, rec, Append(cd, v.path), cf)
                  ELSE WalkFn(Tail(visits), dir, rec, cd, cf)
             ELSE IF ~AllowedExtension(v.path)
                  THEN WalkFn(Tail(visits), dir, rec, cd, cf)
                  ELSE WalkFn(Tail(visits), dir, rec, cd, Append(cf, v.path))

(***************************************************************************)
(* PEM blocks and file contents.                                           *)
(***************************************************************************)
Block(type, der) == [Type |-> type, Bytes |-> der]

Blocks ==
    {Block("CERTIFICATE", d) : d \in CertDER \cup {Garbage}}
    \cup {Block("PRIVATE KEY", d) : d \in {"k8", "ec8"}}
    \cup {Block("RSA PRIVATE KEY", d) : d \in {"k1", Garbage}}
    \cup {Block("X509 CRL", Garbage)}

\* pkcs12.DefaultPassword
DefaultPassword == "changeit"

(***************************************************************************)
(* main                                                                    *)
(***************************************************************************)
NoCall == [fn |-> "none", arg |-> Nil]

\* The command lines (after flag.Parse and the environment fallbacks) and the
\* directory trees a run starts from. An unset KSBUILDER_DIR gives certdirs = [""].
Config(out, pass, rec, dirs, files, t) ==
    [outfile |-> out, storepass |-> pass, recurse |-> rec, certdirs |-> dirs,
     certfiles |-> files, tree |-> t]

Configs ==
    {Config("out.p12", "", FALSE, <<NameDirD>>, <<>>, TreeFlat),
     Config("out.p12", "secret", FALSE, <<NameDirD>>, <<NameX>>, TreeMixed),
     Config("out.p12", "secret", TRUE, <<NameDirD>>, <<>>, TreeMixed),
     Config("out.p12", "", FALSE, <<<<>>>>, <<>>, TreeMixed),
     Config("out.p12", "secret", FALSE, <<NameDirD, NameDirD>>, <<>>, TreeSingle),
     Config("out.p12", "secret", TRUE, <<NameDirD>>, <<>>, TreeDeep),
     Config("out.p12", "secret", FALSE, <<NameDirQ>>, <<>>, TreeFlat),
     Config("", "secret", FALSE, <<NameDirD>>, <<>>, TreeFlat)}

Init ==
    /\ \E c \in Configs :
          /\ outfile = c.outfile
          /\ storepass = c.storepass
          /\ recurse = c.recurse
          /\ certdirs = c.certdirs
          /\ certfiles = c.certfiles
          /\ tree = c.tree
    /\ dirRange = <<>>
    /\ diri = 1
    /\ filei = 1
    /\ decoded = <<>>
    /\ certsBytes = <<>>
    /\ certs = <<>>
    /\ p12 = EmptyP12
    /\ pc = "start"
    /\ err = NoErr
    /\ call = NoCall
    /\ ncalls = 0
    /\ encoded = NoEncode
    /\ output = NoFile
    /\ trace = <<>>
    /\ opened = <<>>
    /\ nblocks = 0

\* check(e) with e # nil, and the panic of the outfile validation
Abort(e) ==
    /\ pc' = "aborted"
    /\ err' = e

\* the position after the body of the certfiles loop for file i has ended
AfterFile(files, i) == IF i + 1 > Len(files) THEN "write" ELSE "read"

\* the validation without the test of outfile
ValidateNoOutfileCheck ==
    /\ pc = "start"
    /\ storepass' = IF storepass = "" THEN DefaultPassword ELSE storepass
    /\ dirRange' = certdirs
    /\ pc' = "walk"
    /\ err' = err
    /\ UNCHANGED <<outfile, recurse, certdirs, certfiles, tree, diri, filei, decoded,
                   certsBytes, certs, p12, call, ncalls, encoded, output, trace,
                   opened, nblocks>>

\* main, lines 105-116: input validation and the default password
Validate ==
    /\ pc = "start"
    /\ IF outfile = ""
       THEN /\ Abort("ConfigurationError")
            /\ UNCHANGED <<storepass, dirRange>>
       ELSE /\ storepass' = IF storepass = "" THEN DefaultPassword ELSE storepass
            /\ dirRange' = certdirs
            /\ pc' = "walk"
            /\ err' = err
    /\ UNCHANGED <<outfile, recurse, certdirs, certfiles, tree, diri, filei, decoded,
                   certsBytes, certs, p12, call, ncalls, encoded, output, trace,
                   opened, nblocks>>

\* the loop over certdirs with its bound read again at every iteration, so that
\* the directories the callback appends are walked too
WalkDirLiveRange ==
    /\ pc = "walk"
    /\ diri <= Len(certdirs)
    /\ LET dir == Abs(certdirs[diri])
       IN  IF dir \notin DOMAIN tree
           THEN /\ Abort("WalkError")
                /\ UNCHANGED <<certdirs, certfiles, diri>>
           ELSE LET r == WalkFn(WalkVisits(tree, dir), dir, recurse, certdirs, certfiles)
                IN  /\ certdirs' = r.certdirs
                    /\ certfiles' = r.certfiles
                    /\ diri' = diri + 1
                    /\ err' = err
                    /\ pc' = IF diri + 1 <= Len(r.certdirs) THEN "walk"
                             ELSE IF r.certfiles = <<>> THEN "write" ELSE "read"
    /\ UNCHANGED <<outfile, storepass, recurse, tree, dirRange, filei, decoded,
                   certsBytes, certs, p12, call, ncalls, encoded, output, trace,
                   opened, nblocks>>

\* main, lines 118-147: one iteration of the loop over certdirs
WalkDir ==
    /\ pc = "walk"
    /\ diri <= Len(dirRange)
    /\ LET dir == Abs(dirRange[diri])
       IN  IF dir \notin DOMAIN tree
           THEN /\ Abort("WalkError")
                /\ UNCHANGED <<certdirs, certfiles, diri>>
           ELSE LET r == WalkFn(WalkVisits(tree, dir), dir, recurse, certdirs, certfiles)
                IN  /\ certdirs' = r.certdirs
                    /\ certfiles' = r.certfiles
                    /\ diri' = diri + 1
                    /\ err' = err
                    /\ pc' = IF diri + 1 <= Len(dirRange) THEN "walk"
                             ELSE IF r.certfiles = <<>> THEN "write" ELSE "read"
    /\ UNCHANGED <<outfile, storepass, recurse, tree, dirRange, filei, decoded,
                   certsBytes, certs, p12, call, ncalls, encoded, output, trace,
                   opened, nblocks>>

\* main, lines 149-156: os.ReadFile of the next path of certfiles
ReadFile ==
    /\ pc = "read"
    /\ filei <= Len(certfiles)
    /\ opened' = Append(opened, certfiles[filei])
    /\ \/ /\ Abort("ReadError")
          /\ UNCHANGED <<decoded, certsBytes>>
       \/ /\ decoded' = <<>>
          /\ certsBytes' = <<>>
          /\ pc' = "decode"
          /\ err' = err
    /\ UNCHANGED <<outfile, storepass, recurse, certdirs, certfiles, tree, dirRange,
                   diri, filei, certs, p12, call, ncalls, encoded, output, trace,
                   nblocks>>

\* line 158: pem.Decode(bytes) finds one more block in the file. The content of
\* the file is an input: the block found is any block, within the bounds.
DecodeFinds(block) ==
    /\ pc = "decode"
    /\ Len(decoded) < MaxBlocksPerFile
    /\ nblocks < MaxObjects
    /\ block \in Blocks
    /\ decoded' = Append(decoded, block.Type)
    /\ nblocks' = nblocks + 1

\* the call check(p12.addKey(privkey)) of lines 166 and 172
CallAddKey(privkey) ==
    LET r == addKey(p12, privkey)
    IN  /\ call' = [fn |-> "addKey", arg |-> privkey]
        /\ ncalls' = ncalls + 1
        /\ p12' = r.p12
        /\ err' = r.err
        /\ IF r.err # NoErr
           THEN /\ pc' = "aborted"
                /\ trace' = trace
           ELSE /\ pc' = "decode"
                /\ trace' = Append(trace, privkey)

\* main, lines 163-169: a "PRIVATE KEY" block
DecodePrivateKey ==
    /\ \E block \in Blocks :
          /\ DecodeFinds(block)
          /\ block.Type = "PRIVATE KEY"
          /\ LET parseResult == ParsePKCS8PrivateKey(block.Bytes)
             IN  IF IsRsaKey(parseResult)
                 THEN CallAddKey(parseResult)
                 ELSE /\ Abort("ParseError")
                      /\ UNCHANGED <<p12, call, ncalls, trace>>
    /\ UNCHANGED <<outfile, storepass, recurse, certdirs, certfiles, tree, dirRange,
                   diri, filei, certsBytes, certs, encoded, output, opened>>

\* main, lines 170-174: an "RSA PRIVATE KEY" block
DecodeRSAPrivateKey ==
    /\ \E block \in Blocks :
          /\ DecodeFinds(block)
          /\ block.Type = "RSA PRIVATE KEY"
          /\ LET privkey == ParsePKCS1PrivateKey(block.Bytes)
             IN  IF privkey # Nil
                 THEN CallAddKey(privkey)
                 ELSE /\ Abort("ParseError")
                      /\ UNCHANGED <<p12, call, ncalls, trace>>
    /\ UNCHANGED <<outfile, storepass, recurse, certdirs, certfiles, tree, dirRange,
                   diri, filei, certsBytes, certs, encoded, output, opened>>

\* main, lines 175-176: a "CERTIFICATE" block
DecodeCertificate ==
    /\ \E block \in Blocks :
          /\ DecodeFinds(block)
          /\ block.Type = "CERTIFICATE"
          /\ certsBytes' = Append(certsBytes, block.Bytes)
    /\ UNCHANGED <<outfile, storepass, recurse, certdirs, certfiles, tree, dirRange,
                   diri, filei, certs, p12, pc, err, call, ncalls, encoded, output,
                   trace, opened>>

\* main, lines 162-177: a block of any other type falls through the switch
DecodeOther ==
    /\ \E block \in Blocks :
          /\ DecodeFinds(block)
          /\ block.Type \notin {"PRIVATE KEY", "RSA PRIVATE KEY", "CERTIFICATE"}
    /\ UNCHANGED <<outfile, storepass, recurse, certdirs, certfiles, tree, dirRange,
                   diri, filei, certsBytes, certs, p12, pc, err, call, ncalls, encoded,
                   output, trace, opened>>

\* the body of the certfiles loop ends: its locals (bytes, certsBytes, certs) go
\* out of scope and the loop moves to the next path, or ends
EndOfFile ==
    /\ decoded' = <<>>
    /\ certsBytes' = <<>>
    /\ certs' = <<>>
    /\ filei' = filei + 1
    /\ pc' = AfterFile(certfiles, filei)

\* main, lines 159-161 and 180-183: pem.Decode finds no more block, the block
\* loop ends, and x509.ParseCertificates runs on the file's certificate bytes
ParseCerts ==
    /\ pc = "decode"
    /\ LET r == ParseCertificates(certsBytes)
       IN  IF r.err # NoErr
           THEN /\ Abort("ParseError")
                /\ UNCHANGED <<certs, filei, decoded, certsBytes>>
           ELSE /\ err' = err
                /\ IF r.certs = <<>>
                   THEN EndOfFile
                   ELSE /\ certs' = r.certs
                        /\ pc' = "classify"
                        /\ UNCHANGED <<filei, decoded, certsBytes>>
    /\ UNCHANGED <<outfile, storepass, recurse, certdirs, certfiles, tree, dirRange,
                   diri, p12, call, ncalls, encoded, output, trace, opened, nblocks>>

\* main, lines 185-190: one iteration of the loop over certs
ClassifyCert ==
    /\ pc = "classify"
    /\ certs # <<>>
    /\ LET cert == Head(certs)
           r == addCertificate(p12, cert)
       IN  /\ call' = [fn |-> "addCertificate", arg |-> cert]
           /\ ncalls' = ncalls + 1
           /\ p12' = r.p12
           /\ err' = r.err
           /\ IF r.err # NoErr
              THEN /\ pc' = "aborted"
                   /\ UNCHANGED <<certs, filei, trace, decoded, certsBytes>>
              ELSE /\ trace' = Append(trace, cert)
                   /\ IF Tail(certs) = <<>>
                      THEN EndOfFile
                      ELSE /\ certs' = Tail(certs)
                           /\ UNCHANGED <<filei, pc, decoded, certsBytes>>
    /\ UNCHANGED <<outfile, storepass, recurse, certdirs, certfiles, tree, dirRange,
                   diri, encoded, output, opened, nblocks>>

\* main, lines 193-196: p12.writeFile(outfile, storepass, 0644) and check(err)
WriteFile ==
    /\ pc = "write"
    /\ \E encodeOk \in BOOLEAN, writeOk \in BOOLEAN, partial \in BOOLEAN :
          LET r == writeFile(p12, storepass, encodeOk, writeOk, partial)
          IN  /\ call' = [fn |-> "writeFile", arg |-> Nil]
              /\ ncalls' = ncalls + 1
              /\ encoded' = r.encoded
              /\ output' = IF r.output = NoFile THEN output ELSE r.output
              /\ err' = r.err
              /\ pc' = IF r.err # NoErr THEN "aborted" ELSE "done"
    /\ UNCHANGED <<outfile, storepass, recurse, certdirs, certfiles, tree, dirRange,
                   diri, filei, decoded, certsBytes, certs, p12, trace, opened, nblocks>>

Next ==
    \/ Validate
    \/ WalkDir
    \/ ReadFile
    \/ DecodePrivateKey
    \/ DecodeRSAPrivateKey
    \/ DecodeCertificate
    \/ DecodeOther
    \/ ParseCerts
    \/ ClassifyCert
    \/ WriteFile

Spec == Init /\ [][Next]_vars

(***************************************************************************)
(* The methods of pkcs12File on an arbitrary aggregate.                    *)
(***************************************************************************)
SeqsUpTo(S, n) == UNION {[1..k -> S] : k \in 0..n}

RootCerts == {c \in Certs : c.IsCA /\ c.Issuer = c.Subject}
IntermediateCerts == {c \in Certs : c.IsCA /\ c.Issuer # c.Subject}
LeafCerts == {c \in Certs : ~c.IsCA}

InitUnit ==
    /\ p12 \in [cacerts : SeqsUpTo(RootCerts, MaxUnitLen),
                intermediatecerts : SeqsUpTo(IntermediateCerts, MaxUnitLen),
                privkey : RsaKeys \cup {Nil},
                entitycert : LeafCerts \cup {Nil}]
    /\ outfile = "out.p12"
    /\ storepass \in {DefaultPassword, "secret"}
    /\ recurse = FALSE
    /\ certdirs = <<>>
    /\ certfiles = <<>>
    /\ tree = TreeFlat
    /\ dirRange = <<>>
    /\ diri = 1
    /\ filei = 1
    /\ decoded = <<>>
    /\ certsBytes = <<>>
    /\ certs = <<>>
    /\ pc = "unit"
    /\ err = NoErr
    /\ call = NoCall
    /\ ncalls = 0
    /\ encoded = NoEncode
    /\ output = NoFile
    /\ trace = <<>>
    /\ opened = <<>>
    /\ nblocks = 0

UnitFrame ==
    UNCHANGED <<outfile, storepass, recurse, certdirs, certfiles, tree, dirRange,
                diri, filei, decoded, certsBytes, certs, pc, opened, nblocks>>

UnitAddCertificate ==
    /\ pc = "unit"
    /\ ncalls < MaxUnitCalls
    /\ \E cert \in Certs \cup {Nil} :
          LET r == addCertificate(p12, cert)
          IN  /\ call' = [fn |-> "addCertificate", arg |-> cert]
              /\ ncalls' = ncalls + 1
              /\ p12' = r.p12
              /\ err' = r.err
              /\ trace' = IF r.err = NoErr /\ cert # Nil THEN Append(trace, cert) ELSE trace
    /\ UNCHANGED <<encoded, output>>
    /\ UnitFrame

UnitAddKey ==
    /\ pc = "unit"
    /\ ncalls < MaxUnitCalls
    /\ \E key \in RsaKeys \cup {Nil} :
          LET r == addKey(p12, key)
          IN  /\ call' = [fn |-> "addKey", arg |-> key]
              /\ ncalls' = ncalls + 1
              /\ p12' = r.p12
              /\ err' = r.err
              /\ trace' = IF r.err = NoErr /\ key # Nil THEN Append(trace, key) ELSE trace
    /\ UNCHANGED <<encoded, output>>
    /\ UnitFrame

UnitWriteFile ==
    /\ pc = "unit"
    /\ ncalls < MaxUnitCalls
    /\ \E encodeOk \in BOOLEAN, writeOk \in BOOLEAN, partial \in BOOLEAN :
          LET r == writeFile(p12, storepass, encodeOk, writeOk, partial)
          IN  /\ call' = [fn |-> "writeFile", arg |-> Nil]
              /\ ncalls' = ncalls + 1
              /\ encoded' = r.encoded
              /\ output' = IF r.output = NoFile THEN output ELSE r.output
              /\ err' = r.err
    /\ UNCHANGED <<p12, trace>>
    /\ UnitFrame

NextUnit ==
    \/ UnitAddCertificate
    \/ UnitAddKey
    \/ UnitWriteFile

SpecUnit == InitUnit /\ [][NextUnit]_vars

(***************************************************************************)
(* Properties.                                                             *)
(***************************************************************************)
IsCert(x) == "Raw" \in DOMAIN x
IsKey(x) == "Alg" \in DOMAIN x
IsRootCert(x) == IsCert(x) /\ x.IsCA /\ x.Issuer = x.Subject
IsIntermediateCert(x) == IsCert(x) /\ x.IsCA /\ x.Issuer # x.Subject

\* the step is a call of method fn of pkcs12File
Called(fn) == ncalls' = ncalls + 1 /\ call'.fn = fn

\* the directory part of a path: what precedes its last separator
RECURSIVE LastSep(_, _)
LastSep(path, i) ==
    IF i < 1 THEN 0
    ELSE IF path[i] = Sep THEN i
    ELSE LastSep(path, i - 1)

DirOf(path) == SubSeq(path, 1, LastSep(path, Len(path)) - 1)

\* the paths given with --file in some configuration
ExplicitFiles == UNION {{c.certfiles[i] : i \in 1..Len(c.certfiles)} : c \in Configs}

\* C1: every call addCertificate(c) with c a self-signed CA appends c to the root
\* sequence, with c a CA whose issuer differs from its subject appends c to the
\* intermediate sequence, and with c not a CA and the end-entity slot empty puts
\* c in the end-entity slot.
C1_Classification ==
    [][(Called("addCertificate") /\ call'.arg # Nil) =>
         LET c == call'.arg
         IN  /\ (c.IsCA /\ c.Issuer = c.Subject) =>
                    p12'.cacerts = Append(p12.cacerts, c)
             /\ (c.IsCA /\ c.Issuer # c.Subject) =>
                    p12'.intermediatecerts = Append(p12.intermediatecerts, c)
             /\ (~c.IsCA /\ p12.entitycert = Nil) =>
                    p12'.entitycert = c]_vars

\* C1 witness: a root, an intermediate and a self-issued non-CA certificate have
\* been classified, one after the other, and each is where the claim puts it.
C1_Witness ==
    /\ pc = "unit"
    /\ trace = <<CertTable.rootC, CertTable.intB, CertTable.leafE>>
    /\ p12.cacerts # <<>> /\ p12.cacerts[Len(p12.cacerts)] = CertTable.rootC
    /\ p12.intermediatecerts # <<>>
    /\ p12.intermediatecerts[Len(p12.intermediatecerts)] = CertTable.intB
    /\ p12.entitycert = CertTable.leafE

\* C2: a call addKey(key) with a non-nil key on an aggregate whose private-key
\* slot is empty succeeds and leaves the slot holding that key.
C2_KeyOccupiesSlot ==
    [][(Called("addKey") /\ call'.arg # Nil /\ p12.privkey = Nil) =>
         (err' = NoErr /\ p12'.privkey = call'.arg)]_vars

\* C3: a second private key is never accepted: once one key has been classified,
\* classifying another one fails with DuplicateKey and the run aborts.
C3_SecondKeyRejected ==
    Len(SelectSeq(trace, IsKey)) <= 1

\* C4: a call addCertificate(c) with c not a CA on an aggregate whose end-entity
\* slot is occupied fails with DuplicateEndEntity and leaves the aggregate as it was.
C4_DuplicateEndEntity ==
    [][(Called("addCertificate") /\ call'.arg # Nil /\ ~call'.arg.IsCA
          /\ p12.entitycert # Nil) =>
         (err' = "DuplicateEndEntity" /\ p12' = p12)]_vars

\* C4 witness: a second, different end-entity certificate has been refused on an
\* aggregate that holds roots, intermediates and a key.
C4_Witness ==
    /\ call.fn = "addCertificate"
    /\ err = "DuplicateEndEntity"
    /\ p12.entitycert # Nil
    /\ p12.entitycert # call.arg
    /\ p12.privkey # Nil
    /\ p12.cacerts # <<>>
    /\ p12.intermediatecerts # <<>>

\* C5: a run that classifies a self-signed CA a, a non-self-signed CA b, a key c
\* and a non-CA certificate d, in this order and nothing else, ends with
\* root = [a], intermediate = [b], key = c, end-entity = d and encodes a keystore.
C5_EndToEnd ==
    (/\ pc = "done"
     /\ nblocks = 4
     /\ Len(opened) = 4
     /\ trace = <<CertTable.rootA, CertTable.intB, [Alg |-> "rsa", Id |-> "K"],
                  CertTable.leafD>>)
    => /\ p12 = [cacerts |-> <<CertTable.rootA>>,
                 intermediatecerts |-> <<CertTable.intB>>,
                 privkey |-> [Alg |-> "rsa", Id |-> "K"],
                 entitycert |-> CertTable.leafD]
       /\ encoded.mode = "keystore"

\* C6: a call of writeFile on an aggregate with a private key and no end-entity
\* certificate fails with MissingEndEntityCert, calls no encode primitive and
\* leaves the output file alone; a keystore is encoded only with the end-entity
\* certificate of the aggregate.
C6_MissingEndEntityCert ==
    [][Called("writeFile") =>
         /\ (p12.privkey # Nil /\ p12.entitycert = Nil) =>
               (err' = "MissingEndEntityCert" /\ encoded' = NoEncode /\ output' = output)
         /\ encoded'.mode = "keystore" =>
               (p12.entitycert # Nil /\ encoded'.cert = p12.entitycert)]_vars

\* C6 witness: writeFile has refused an aggregate with a key and no end-entity
\* certificate, and nothing was encoded or written.
C6_Witness ==
    /\ call.fn = "writeFile"
    /\ err = "MissingEndEntityCert"
    /\ p12.privkey # Nil
    /\ p12.entitycert = Nil
    /\ p12.cacerts # <<>>
    /\ encoded = NoEncode
    /\ output = NoFile

\* C7: the chain handed to the encode primitive is the root certificates in the
\* order they were classified followed by the intermediate certificates in the
\* order they were classified, and a written trust store holds exactly that chain.
C7_ChainOrder ==
    LET chain == SelectSeq(trace, IsRootCert) \o SelectSeq(trace, IsIntermediateCert)
    IN  /\ encoded # NoEncode => encoded.chain = chain
        /\ (output # NoFile /\ output # Partial /\ output.payload.mode = "truststore")
              => output.payload.chain = chain

\* C7 witness: an intermediate was classified before the root, and the trust
\* store written holds [rootA, intB].
C7_Witness ==
    /\ pc = "done"
    /\ trace = <<CertTable.intB, CertTable.rootA>>
    /\ encoded.mode = "truststore"
    /\ output # NoFile /\ output # Partial
    /\ output.payload.chain = <<CertTable.rootA, CertTable.intB>>

Failures ==
    {"ConfigurationError", "WalkError", "ReadError", "ParseError", "DuplicateEndEntity",
     "DuplicateKey", "MissingEndEntityCert", "EncodeError"}

C9_NonRecursive ==
    ~recurse =>
        \A i \in 1..Len(opened) :
            \/ opened[i] \in ExplicitFiles
            \/ \E d \in 1..Len(dirRange) : DirOf(opened[i]) = Abs(dirRange[d])

\* C10: every path the run reads has extension .crt, .key or .pem.
C10_ExtensionAllowList ==
    \A i \in 1..Len(opened) : AllowedExtension(opened[i])

\* C11: no path is read twice: the sequence of files read holds every path once,
\* also when a source directory is listed twice.
C11_NoDuplicateCandidates ==
    \A i, j \in 1..Len(opened) : i # j => opened[i] # opened[j]

\* the files of a directory tree
TreeFiles(t) ==
    UNION {{Join(d, t[d][i].name) : i \in {k \in 1..Len(t[d]) : ~t[d][k].isDir}} :
             d \in DOMAIN t}

\* path p lies in directory dir, at any depth
IsUnder(p, dir) ==
    /\ Len(p) > Len(dir) + 1
    /\ SubSeq(p, 1, Len(dir)) = dir
    /\ p[Len(dir) + 1] = Sep

\* the last element of a path
BaseName(path) == SubSeq(path, LastSep(path, Len(path)) + 1, Len(path))

Count(seq, x) == Cardinality({i \in 1..Len(seq) : seq[i] = x})

\* the loop over certdirs has ended without error
WalkFinished ==
    \/ pc \in {"read", "decode", "classify", "write", "done"}
    \/ pc = "aborted" /\ err \notin {"ConfigurationError", "WalkError"}

\* C12: with --recursive and one source directory, every eligible file below the
\* directory, at any depth, is a candidate exactly once, although its directory
\* is both entered by the walk and appended to certdirs; the four files of the
\* flat layout placed one level deeper give the same candidates in the same order.
C12_RecursiveOnce ==
    (recurse /\ WalkFinished /\ Len(dirRange) = 1) =>
        /\ \A f \in TreeFiles(tree) :
              (IsUnder(f, Abs(dirRange[1])) /\ AllowedExtension(f)) =>
                  Count(certfiles, f) = 1
        /\ tree = TreeDeep =>
              [i \in 1..Len(certfiles) |-> BaseName(certfiles[i])]
                  = <<NameA, NameB, NameC, NameD>>

\* C12 witness: a recursive run over the deep layout has appended the
\* sub-directory to certdirs, read four files and classified the four objects of
\* the flat scenario.
C12_Witness ==
    /\ pc = "done"
    /\ recurse
    /\ tree = TreeDeep
    /\ certdirs = <<NameDirD, PathS>>
    /\ Len(opened) = 4
    /\ trace = <<CertTable.rootA, CertTable.intB, [Alg |-> "rsa", Id |-> "K"],
                 CertTable.leafD>>

\* C13: a run without an output path fails with the configuration error in its
\* first step: no directory is walked, no file read, no object classified,
\* nothing encoded and no output written.
C13_MissingOutputPath ==
    outfile = "" =>
        /\ pc = "start" \/ (pc = "aborted" /\ err = "ConfigurationError")
        /\ dirRange = <<>> /\ diri = 1
        /\ opened = <<>> /\ nblocks = 0
        /\ ncalls = 0 /\ trace = <<>> /\ p12 = EmptyP12
        /\ encoded = NoEncode /\ output = NoFile

\* C13 witness: the run without an output path has been aborted.
C13_Witness ==
    /\ outfile = ""
    /\ pc = "aborted"
    /\ err = "ConfigurationError"
    /\ output = NoFile

\* C14: when writeFile runs on an aggregate without a private key, the encode
\* primitive gets the chain (roots, then intermediates) and the password only:
\* a recorded end-entity certificate is not in the payload and raises no
\* MissingEndEntityCert error.
C14_TrustStoreDropsEndEntity ==
    (call.fn = "writeFile" /\ p12.privkey = Nil) =>
        /\ encoded.mode = "truststore"
        /\ DOMAIN encoded = {"mode", "chain", "password"}
        /\ encoded.chain = p12.cacerts \o p12.intermediatecerts
        /\ \A i \in 1..Len(encoded.chain) : encoded.chain[i] # p12.entitycert
        /\ err \in {NoErr, "EncodeError", "WriteError"}
        /\ (err = NoErr => (pc = "done" /\ output.payload = encoded))

\* C14 witness: a run that recorded an end-entity certificate and no key has
\* written a trust store holding the root and the intermediate only.
C14_Witness ==
    /\ pc = "done"
    /\ p12.entitycert = CertTable.leafD
    /\ p12.privkey = Nil
    /\ encoded.mode = "truststore"
    /\ output # NoFile /\ output # Partial
    /\ output.payload.chain = <<CertTable.rootA, CertTable.intB>>

KeyBlockTypes == {"PRIVATE KEY", "RSA PRIVATE KEY"}

\* the files are read in the order of certfiles
FileOrder == opened' = SubSeq(certfiles', 1, Len(opened'))

\* C15 as stated: files are processed in candidate order and the objects of one
\* file are classified in the order of their PEM blocks, so that when a key is
\* classified no certificate block precedes it in the file unclassified.
C15_BlockOrder ==
    [][/\ FileOrder
       /\ Called("addKey") =>
             \A i \in 1..Len(decoded) : decoded[i] # "CERTIFICATE"]_vars

\* C15 amended: files are processed in candidate order; within one file a key
\* is classified in the step that decodes its block, and the certificates of
\* the file are classified after the last block of the file was decoded, in the
\* order of their blocks.
C15_KeysThenCertificates ==
    [][/\ FileOrder
       /\ Called("addKey") =>
             /\ pc = "decode"
             /\ Len(decoded') = Len(decoded) + 1
             /\ decoded'[Len(decoded')] \in KeyBlockTypes
       /\ Called("addCertificate") =>
             /\ pc = "classify"
             /\ nblocks' = nblocks
             /\ Len(certs) <= Len(certsBytes)
             /\ call'.arg = CertTable[certsBytes[Len(certsBytes) - Len(certs) + 1]]]_vars

\* C15 witness: in a file whose first block is a certificate and whose second
\* block is a key, the key has been classified and the certificate not yet.
C15_Witness ==
    /\ pc = "classify"
    /\ decoded = <<"CERTIFICATE", "PRIVATE KEY">>
    /\ call.fn = "addKey"
    /\ trace = <<[Alg |-> "rsa", Id |-> "K"]>>
    /\ certs = <<CertTable.rootA>>
    /\ p12.cacerts = <<>>

IsPrefix(s, t) == Len(s) <= Len(t) /\ s = SubSeq(t, 1, Len(s))

\* C16: no step of a sequence of addCertificate/addKey calls, successful or
\* failing, removes or replaces a classified object: the root and intermediate
\* sequences before the step are prefixes of those after it, and an occupied
\* end-entity slot or key slot holds the same object after the step.
C16_NothingRemoved ==
    [][/\ IsPrefix(p12.cacerts, p12'.cacerts)
       /\ IsPrefix(p12.intermediatecerts, p12'.intermediatecerts)
       /\ p12.entitycert # Nil => p12'.entitycert = p12.entitycert
       /\ p12.privkey # Nil => p12'.privkey = p12.privkey]_vars

\* C16 witness: a second end-entity certificate was just refused by an
\* aggregate that holds two roots, an end-entity certificate and a key.
C16_Witness ==
    /\ pc = "unit"
    /\ call.fn = "addCertificate"
    /\ err = "DuplicateEndEntity"
    /\ p12.entitycert # Nil
    /\ call.arg # p12.entitycert
    /\ p12.privkey # Nil
    /\ Len(p12.cacerts) >= 2

\* C17: a run ends in one of two states, aborted with an error and no output
\* file, or completed without error with the output file written; writeFile is
\* called only after every candidate file has been processed, and nothing is
\* done after the end state.
C17_TwoEndStates ==
    /\ pc = "aborted" => (err # NoErr /\ output = NoFile)
    /\ pc = "done" => (err = NoErr /\ output # NoFile /\ output # Partial)
    /\ call.fn = "writeFile" =>
          (pc \in {"done", "aborted"} /\ filei > Len(certfiles) /\ opened = certfiles)

\* C18: addCertificate with a CA certificate succeeds in every aggregate state
\* and appends the certificate to exactly one of the two sequences, leaving the
\* other sequence, the end-entity slot and the key slot as they were; with an
\* end-entity certificate and an empty slot it fills the slot and leaves both
\* sequences and the key slot as they were.
C18_FrameOfAddCertificate ==
    [][Called("addCertificate") =>
          LET c == call'.arg
          IN  /\ (c # Nil /\ c.IsCA) =>
                    /\ err' = NoErr
                    /\ \/ /\ p12'.cacerts = Append(p12.cacerts, c)
                          /\ p12'.intermediatecerts = p12.intermediatecerts
                       \/ /\ p12'.intermediatecerts = Append(p12.intermediatecerts, c)
                          /\ p12'.cacerts = p12.cacerts
                    /\ p12'.entitycert = p12.entitycert
                    /\ p12'.privkey = p12.privkey
              /\ (c # Nil /\ ~c.IsCA /\ p12.entitycert = Nil) =>
                    /\ err' = NoErr
                    /\ p12'.entitycert = c
                    /\ p12'.cacerts = p12.cacerts
                    /\ p12'.intermediatecerts = p12.intermediatecerts
                    /\ p12'.privkey = p12.privkey]_vars

\* C18 witness: a root was just added to an aggregate that already held a
\* root, an intermediate, an end-entity certificate and a key.
C18_Witness ==
    /\ pc = "unit"
    /\ call.fn = "addCertificate"
    /\ IsRootCert(call.arg)
    /\ err = NoErr
    /\ Len(p12.cacerts) >= 2
    /\ p12.cacerts[Len(p12.cacerts)] = call.arg
    /\ p12.intermediatecerts # <<>>
    /\ p12.entitycert # Nil
    /\ p12.privkey # Nil

====
